---- MODULE Spec2Model ----
(***************************************************************************)
(* A model of the essay panel: the file-backed persistence store           *)
(* (src/essay_handler.py, class EssayHandler), the credential cache and    *)
(* push dispatcher (src/wechat_handler.py, class WeChatHandler) and the    *)
(* push route (src/main.py).                                               *)
(*                                                                         *)
(* The persistence store is modelled as the class it is: an object with a  *)
(* threading.Lock whose methods may be called from several threads.  Every *)
(* `with self.file_lock:` block is two steps (acquire; body and release),  *)
(* every file access outside such a block is one step of its own.          *)
(***************************************************************************)
EXTENDS Integers, Sequences, FiniteSets, TLC

(***************************************************************************)
(* Bounds of the model.                                                    *)
(***************************************************************************)
MaxCalls == 3       \* calls of store methods started in one run
MaxFaults == 1      \* file reads or writes that fail in one run

Threads == {"t1", "t2"}
OpenIds == {"oA", "oB"}
Seconds == {0, 1}    \* the seconds of the run in which essays are submitted

NoThread == "none"
None == [tag |-> "None"]

(***************************************************************************)
(* Texts are sequences of characters, so that the conversions pandas       *)
(* applies when it reads a sheet back can be computed, not assumed.        *)
(***************************************************************************)
DigitChars == <<"0", "1", "2", "3", "4", "5", "6", "7", "8", "9">>

IsDigit(c) == \E i \in 1..Len(DigitChars) : DigitChars[i] = c

DigitVal(c) == (CHOOSE i \in 1..Len(DigitChars) : DigitChars[i] = c) - 1

\* the text reads as a number (the digit strings of what pandas accepts)
IsNumericText(s) == Len(s) > 0 /\ \A i \in 1..Len(s) : IsDigit(s[i])

RECURSIVE ParseNat(_)
ParseNat(s) ==
    IF s = <<>> THEN 0
    ELSE 10 * ParseNat(SubSeq(s, 1, Len(s) - 1)) + DigitVal(s[Len(s)])

\* strings read_excel takes for a missing value (keep_default_na), those of
\* them that the inputs of this model can spell
NaTexts == { <<>>, <<"N", "A">> }

(***************************************************************************)
(* A cell of a sheet, or a value of a record returned by the store: a      *)
(* text, a number or NaN (an empty cell).                                  *)
(***************************************************************************)
Str(s) == [k |-> "str", s |-> s, n |-> 0]
Num(n) == [k |-> "num", s |-> <<>>, n |-> n]
NaN == [k |-> "nan", s |-> <<>>, n |-> 0]

\* datetime.now().strftime("%Y-%m-%d %H:%M:%S"), to the second
Strftime(c) == <<"d", ":", DigitChars[c + 1]>>

\* what can be typed into the form: (title, author, chapter)
EssayInputs ==
    { <<(<<"T", "1">>), (<<"A", "n", "n">>), (<<"c", "h", "1">>)>>,
      <<(<<"0", "0", "7">>), (<<"A", "n", "n">>), (<<"3">>)>>,
      <<(<<"N", "A">>), (<<"B", "o">>), (<<"c", "h", "1">>)>> }

(***************************************************************************)
(* The essay sheet: essays.xlsx written by DataFrame.to_excel and read     *)
(* back by pandas.read_excel.  A file is intact (ok) with its rows, or     *)
(* torn: opened for writing, truncated, and never completed.               *)
(***************************************************************************)
IntactFile(content) == [ok |-> TRUE, content |-> content]
TornFile == [ok |-> FALSE, content |-> <<>>]

\* read_excel's type inference treats a column as numeric when every cell of
\* it is a number, a missing value or a text that reads as a number
ColumnIsNumeric(rows, c) ==
    \A i \in 1..Len(rows) :
        LET cell == rows[i][c] IN
            \/ cell.k \in {"num", "nan"}
            \/ cell.k = "str" /\ (cell.s \in NaTexts \/ IsNumericText(cell.s))

\* one cell as read_excel returns it
InferCell(cell, numeric) ==
    IF cell.k = "str" /\ cell.s \in NaTexts THEN NaN
    ELSE IF numeric /\ cell.k = "str" THEN Num(ParseNat(cell.s))
    ELSE cell

\* pd.read_excel(...).to_dict('records')
ReadSheet(rows) ==
    [i \in 1..Len(rows) |->
        [c \in DOMAIN rows[i] |->
            InferCell(rows[i][c], ColumnIsNumeric(rows, c))]]

\* EssayHandler._load_essays_from_excel: every failure gives the empty list
load_essays_from_excel(file, readOk) ==
    IF ~readOk \/ ~file.ok THEN <<>> ELSE ReadSheet(file.content)

WriteOutcomes(canFail) == IF canFail THEN {"ok", "denied", "torn"} ELSE {"ok"}
ReadOutcomes(canFail) == IF canFail THEN {TRUE, FALSE} ELSE {TRUE}

\* the file after an attempt to write `content` over `file`
WriteFile(file, content, outcome) ==
    CASE outcome = "ok" -> IntactFile(content)
      [] outcome = "denied" -> file
      [] outcome = "torn" -> TornFile

\* EssayHandler._save_essays_to_excel: <<file afterwards, returned boolean>>
save_essays_to_excel(file, essays, outcome) ==
    <<WriteFile(file, essays, outcome), outcome = "ok">>

\* the dictionary save_essay_data builds from the form fields
NewEssay(in, second) ==
    [title |-> Str(in[1]), author |-> Str(in[2]), chapter |-> Str(in[3]),
     time |-> Str(Strftime(second))]

Reverse(s) == [i \in 1..Len(s) |-> s[Len(s) + 1 - i]]

\* EssayHandler.get_all_essays, given what the load returned
get_all_essays(essays) == Reverse(essays)

\* EssayHandler.get_latest_essay, given what the load returned
get_latest_essay(essays) == IF essays # <<>> THEN essays[Len(essays)] ELSE None

(***************************************************************************)
(* The identifier file: openids.json, a JSON list.                         *)
(***************************************************************************)
SetOf(list) == {list[i] : i \in 1..Len(list)}

\* list(s) of a Python set: its elements once each, in an order that the
\* hash seed of the process decides
ListsOfSet(S) ==
    {l \in [1..Cardinality(S) -> S] : SetOf(l) = S}

\* EssayHandler._load_data: every failure gives the empty list
load_data(file, readOk) ==
    IF ~readOk \/ ~file.ok THEN <<>> ELSE file.content

\* EssayHandler._save_data: <<file afterwards, returned boolean>>
save_data(file, data, outcome) ==
    <<WriteFile(file, data, outcome), outcome = "ok">>

\* EssayHandler.get_all_openids, given what the load returned
get_all_openids(openids_list) == SetOf(openids_list)

\* a save_openid that writes the new identifier alone
OpenidsToSave_NewOnly(openids_set, openid) ==
    IF openid \notin openids_set THEN ListsOfSet({openid}) ELSE {}

\* save_openid's decision on the loaded set: the lists it may write (the set
\* with the identifier added, in any order), none when the identifier is
\* already there
OpenidsToSave(openids_set, openid) ==
    IF openid \notin openids_set
    THEN ListsOfSet(openids_set \cup {openid})
    ELSE {}

(***************************************************************************)
(* The message log: messages.xlsx.                                         *)
(***************************************************************************)
\* the message_data dictionaries a caller may pass
MessageInputs ==
    { [received |-> Str(<<"d", ":", "0">>), sender |-> Str(<<"o", "A">>),
       type |-> Str(<<"t", "e", "x", "t">>), content |-> Str(<<"7">>)] }

\* save_message_to_excel's body: <<file afterwards, returned boolean>>; a
\* failed read ends it before anything is written
save_message_body(file, message_data, readOk, outcome) ==
    IF ~readOk \/ ~file.ok THEN <<file, FALSE>>
    ELSE <<WriteFile(file, ReadSheet(file.content) \o <<message_data>>, outcome),
           outcome = "ok">>

(***************************************************************************)
(* State.                                                                  *)
(***************************************************************************)
VARIABLES
    essaysFile,     \* data/essays.xlsx
    openidsFile,    \* data/openids.json
    messagesFile,   \* data/messages.xlsx
    file_lock,      \* EssayHandler.file_lock: the thread holding it
    pc,             \* where each thread is in the store method it runs
    frame,          \* the arguments and locals of that method
    clock,          \* datetime.now(), the second of the run
    sequential,     \* the run makes its store calls one after the other
    calls,          \* store calls started
    faultsLeft,     \* file accesses that may still fail
    last,           \* the store call completed last: method, argument, result
    passed,         \* identifiers passed to completed save_openid calls
    saved,          \* identifiers whose save_openid returned True
    appended        \* essays whose save_essay_data returned True, in order

storeVars ==
    <<essaysFile, openidsFile, messagesFile, file_lock, pc, frame, clock,
      sequential, calls, faultsLeft, last, passed, saved, appended>>

\* the state of the WeChatHandler object and of its calls
VARIABLES
    access_token,       \* WeChatHandler._access_token
    token_expires_at,   \* WeChatHandler._token_expires_at
    now,                \* time.time()
    lapses,             \* times the clock was moved
    tokenCalls,         \* get_access_token calls made on their own
    pushes,             \* push_to_all_subscribers calls made
    lastOp,             \* the handler method called last
    lastGet,            \* the last get_access_token invocation, as observed
    gets,               \* token requests issued by the last call
    posts,              \* send requests issued by the last call
    pushPc,             \* "idle", or "loop" inside push_to_all_subscribers
    openids,            \* the set passed to push_to_all_subscribers
    remaining,          \* identifiers the loop has not reached
    success_count,
    failure_count,
    sent,               \* send_text_message invocations of the batch, per id
    succeeded,          \* identifiers whose send returned True in the batch
    pushRet,            \* what push_to_all_subscribers returned last
    lastPost,           \* what the send endpoint answered the last send, if asked
    verifyPc,           \* "none", or where a verify_signature call stands
    verifyArgs,         \* its signature, timestamp and nonce
    verifyRet,          \* what it returned
    push_status,        \* the push_status of the last /push_all_essays redirect
    fetched             \* the last answer that carried a token, and when it came

pushVars ==
    <<access_token, token_expires_at, now, lapses, tokenCalls, pushes, lastOp, lastGet, gets,
      posts, pushPc, openids, remaining, success_count, failure_count, sent,
      succeeded, pushRet, lastPost, verifyPc, verifyArgs, verifyRet,
      push_status, fetched>>

EmptyFrame ==
    [openid |-> "", openids_set |-> {}, to_save |-> <<>>, essays |-> <<>>,
     new_essay |-> None, message_data |-> None, body |-> None]

\* EssayHandler.__init__ on a fresh data directory: initialize_files creates
\* the three files empty, and the lock is free
StoreInit ==
    /\ essaysFile = IntactFile(<<>>)
    /\ openidsFile = IntactFile(<<>>)
    /\ messagesFile = IntactFile(<<>>)
    /\ file_lock = NoThread
    /\ pc = [t \in Threads |-> "idle"]
    /\ frame = [t \in Threads |-> EmptyFrame]
    /\ clock = 0
    /\ calls = 0
    /\ last = [op |-> "none", arg |-> None, val |-> None]
    /\ passed = {}
    /\ saved = {}
    /\ appended = <<>>

AllIdle == \A t \in Threads : pc[t] = "idle"

CanFail == faultsLeft > 0

\* a thread may start a store call
MayCall(t) ==
    /\ pc[t] = "idle"
    /\ calls < MaxCalls
    /\ sequential => AllIdle

Spend(failed) == faultsLeft' = IF failed THEN faultsLeft - 1 ELSE faultsLeft

\* the call of thread t returns val
Return(t, op, arg, val) ==
    /\ pc' = [pc EXCEPT ![t] = "idle"]
    /\ frame' = [frame EXCEPT ![t] = EmptyFrame]
    /\ last' = [op |-> op, arg |-> arg, val |-> val]

\* save_openid returns val: to the caller of the store, or into the
\* process_and_reply that called it, which goes on whatever val is
ReturnSaveOpenid(t, openid, val) ==
    IF frame[t].body = None
    THEN Return(t, "save_openid", openid, val)
    ELSE /\ pc' = [pc EXCEPT ![t] = "pr_reply"]
         /\ frame' = [frame EXCEPT ![t] = [EmptyFrame EXCEPT !.body = frame[t].body]]
         /\ UNCHANGED last

\* `with self.file_lock:` entered
Acquire(t, at, to) ==
    /\ pc[t] = at
    /\ file_lock = NoThread
    /\ file_lock' = t
    /\ pc' = [pc EXCEPT ![t] = to]

\* a block that keeps the lock when it is left
Release_Never(t) == UNCHANGED file_lock

\* `with self.file_lock:` left, by a return inside it or after an exception
\* that the try inside it has caught
Release(t) == file_lock' = NoThread

(***************************************************************************)
(* EssayHandler.save_openid(openid)                                        *)
(***************************************************************************)
CallSaveOpenid(t) ==
    /\ MayCall(t)
    /\ \E openid \in OpenIds :
          frame' = [frame EXCEPT ![t] = [EmptyFrame EXCEPT !.openid = openid]]
    /\ pc' = [pc EXCEPT ![t] = "so_load_lock"]
    /\ calls' = calls + 1
    /\ UNCHANGED <<essaysFile, openidsFile, messagesFile, file_lock, clock,
                   sequential, faultsLeft, last, passed, saved, appended>>
    /\ UNCHANGED pushVars

\* get_all_openids -> _load_data: the lock is taken
SaveOpenidLoadLock(t) ==
    /\ Acquire(t, "so_load_lock", "so_load")
    /\ UNCHANGED <<essaysFile, openidsFile, messagesFile, frame, clock,
                   sequential, calls, faultsLeft, last, passed, saved, appended>>
    /\ UNCHANGED pushVars

\* the file is read and the lock released; then the membership test, which
\* returns True at once when the identifier is in the loaded set
SaveOpenidLoad(t) ==
    /\ pc[t] = "so_load"
    /\ Release(t)
    /\ \E readOk \in ReadOutcomes(CanFail) :
          LET openid == frame[t].openid
              openids_set == get_all_openids(load_data(openidsFile, readOk))
              lists == OpenidsToSave(openids_set, openid)
          IN  /\ Spend(~readOk)
              /\ IF lists = {}
                 THEN /\ ReturnSaveOpenid(t, openid, TRUE)
                      /\ passed' = passed \cup {openid}
                      /\ saved' = saved \cup {openid}
                 ELSE /\ \E l \in lists :
                            frame' = [frame EXCEPT ![t].openids_set = openids_set,
                                                   ![t].to_save = l]
                      /\ pc' = [pc EXCEPT ![t] = "so_save_lock"]
                      /\ UNCHANGED <<last, passed, saved>>
    /\ UNCHANGED <<essaysFile, openidsFile, messagesFile, clock, sequential,
                   calls, appended>>
    /\ UNCHANGED pushVars

\* _save_data: the lock is taken again
SaveOpenidSaveLock(t) ==
    /\ Acquire(t, "so_save_lock", "so_save")
    /\ UNCHANGED <<essaysFile, openidsFile, messagesFile, frame, clock,
                   sequential, calls, faultsLeft, last, passed, saved, appended>>
    /\ UNCHANGED pushVars

\* the list is written, the lock released and the result returned
SaveOpenidSave(t) ==
    /\ pc[t] = "so_save"
    /\ Release(t)
    /\ \E outcome \in WriteOutcomes(CanFail) :
          LET openid == frame[t].openid
              r == save_data(openidsFile, frame[t].to_save, outcome)
          IN  /\ Spend(outcome # "ok")
              /\ openidsFile' = r[1]
              /\ ReturnSaveOpenid(t, openid, r[2])
              /\ passed' = passed \cup {openid}
              /\ saved' = IF r[2] THEN saved \cup {openid} ELSE saved
    /\ UNCHANGED <<essaysFile, messagesFile, clock, sequential, calls, appended>>
    /\ UNCHANGED pushVars

(***************************************************************************)
(* EssayHandler.get_all_openids()                                          *)
(***************************************************************************)
CallGetAllOpenids(t) ==
    /\ MayCall(t)
    /\ pc' = [pc EXCEPT ![t] = "go_load_lock"]
    /\ calls' = calls + 1
    /\ UNCHANGED <<essaysFile, openidsFile, messagesFile, file_lock, frame,
                   clock, sequential, faultsLeft, last, passed, saved, appended>>
    /\ UNCHANGED pushVars

GetAllOpenidsLock(t) ==
    /\ Acquire(t, "go_load_lock", "go_load")
    /\ UNCHANGED <<essaysFile, openidsFile, messagesFile, frame, clock,
                   sequential, calls, faultsLeft, last, passed, saved, appended>>
    /\ UNCHANGED pushVars

GetAllOpenidsLoad(t) ==
    /\ pc[t] = "go_load"
    /\ Release(t)
    /\ \E readOk \in ReadOutcomes(CanFail) :
          /\ Spend(~readOk)
          /\ Return(t, "get_all_openids", None,
                    get_all_openids(load_data(openidsFile, readOk)))
    /\ UNCHANGED <<essaysFile, openidsFile, messagesFile, clock, sequential,
                   calls, passed, saved, appended>>
    /\ UNCHANGED pushVars

(***************************************************************************)
(* EssayHandler.save_essay_data(title, author, chapter)                    *)
(***************************************************************************)
\* the record is built with the time of the call, which is the time of the
\* call before or later
CallSaveEssay(t) ==
    /\ MayCall(t)
    /\ \E second \in {c \in Seconds : c >= clock} :
          /\ clock' = second
          /\ \E in \in EssayInputs :
                frame' = [frame EXCEPT
                             ![t] = [EmptyFrame EXCEPT
                                        !.new_essay = NewEssay(in, second)]]
    /\ pc' = [pc EXCEPT ![t] = "se_load"]
    /\ calls' = calls + 1
    /\ UNCHANGED <<essaysFile, openidsFile, messagesFile, file_lock,
                   sequential, faultsLeft, last, passed, saved, appended>>
    /\ UNCHANGED pushVars

\* _load_essays_from_excel, which takes no lock, and the append
SaveEssayLoad(t) ==
    /\ pc[t] = "se_load"
    /\ \E readOk \in ReadOutcomes(CanFail) :
          /\ Spend(~readOk)
          /\ frame' = [frame EXCEPT
                          ![t].essays =
                              Append(load_essays_from_excel(essaysFile, readOk),
                                     frame[t].new_essay)]
    /\ pc' = [pc EXCEPT ![t] = "se_save_lock"]
    /\ UNCHANGED <<essaysFile, openidsFile, messagesFile, file_lock, clock,
                   sequential, calls, last, passed, saved, appended>>
    /\ UNCHANGED pushVars

\* _save_essays_to_excel: the lock is taken
SaveEssaySaveLock(t) ==
    /\ Acquire(t, "se_save_lock", "se_save")
    /\ UNCHANGED <<essaysFile, openidsFile, messagesFile, frame, clock,
                   sequential, calls, faultsLeft, last, passed, saved, appended>>
    /\ UNCHANGED pushVars

\* the whole sheet is rewritten, the lock released and the result returned
SaveEssaySave(t) ==
    /\ pc[t] = "se_save"
    /\ Release(t)
    /\ \E outcome \in WriteOutcomes(CanFail) :
          LET r == save_essays_to_excel(essaysFile, frame[t].essays, outcome)
          IN  /\ Spend(outcome # "ok")
              /\ essaysFile' = r[1]
              /\ Return(t, "save_essay_data", frame[t].new_essay, r[2])
              /\ appended' = IF r[2] THEN Append(appended, frame[t].new_essay)
                             ELSE appended
    /\ UNCHANGED <<openidsFile, messagesFile, clock, sequential, calls,
                   passed, saved>>
    /\ UNCHANGED pushVars

(***************************************************************************)
(* EssayHandler.get_all_essays() and get_latest_essay(): one read of the   *)
(* sheet, without the lock                                                 *)
(***************************************************************************)
CallGetAllEssays(t) ==
    /\ MayCall(t)
    /\ pc' = [pc EXCEPT ![t] = "ga_load"]
    /\ calls' = calls + 1
    /\ UNCHANGED <<essaysFile, openidsFile, messagesFile, file_lock, frame,
                   clock, sequential, faultsLeft, last, passed, saved, appended>>
    /\ UNCHANGED pushVars

\* _load_essays_from_excel, which takes no lock, and the reversal
GetAllEssays(t) ==
    /\ pc[t] = "ga_load"
    /\ \E readOk \in ReadOutcomes(CanFail) :
          /\ Spend(~readOk)
          /\ Return(t, "get_all_essays", None,
                    get_all_essays(load_essays_from_excel(essaysFile, readOk)))
    /\ UNCHANGED <<essaysFile, openidsFile, messagesFile, file_lock, clock,
                   sequential, calls, passed, saved, appended>>
    /\ UNCHANGED pushVars

CallGetLatestEssay(t) ==
    /\ MayCall(t)
    /\ pc' = [pc EXCEPT ![t] = "gl_load"]
    /\ calls' = calls + 1
    /\ UNCHANGED <<essaysFile, openidsFile, messagesFile, file_lock, frame,
                   clock, sequential, faultsLeft, last, passed, saved, appended>>
    /\ UNCHANGED pushVars

\* _load_essays_from_excel, which takes no lock, and the last row
GetLatestEssay(t) ==
    /\ pc[t] = "gl_load"
    /\ \E readOk \in ReadOutcomes(CanFail) :
          /\ Spend(~readOk)
          /\ Return(t, "get_latest_essay", None,
                    get_latest_essay(load_essays_from_excel(essaysFile, readOk)))
    /\ UNCHANGED <<essaysFile, openidsFile, messagesFile, file_lock, clock,
                   sequential, calls, passed, saved, appended>>
    /\ UNCHANGED pushVars

(***************************************************************************)
(* EssayHandler.save_message_to_excel(message_data)                        *)
(***************************************************************************)
CallSaveMessage(t) ==
    /\ MayCall(t)
    /\ \E m \in MessageInputs :
          frame' = [frame EXCEPT ![t] = [EmptyFrame EXCEPT !.message_data = m]]
    /\ pc' = [pc EXCEPT ![t] = "sm_lock"]
    /\ calls' = calls + 1
    /\ UNCHANGED <<essaysFile, openidsFile, messagesFile, file_lock, clock,
                   sequential, faultsLeft, last, passed, saved, appended>>
    /\ UNCHANGED pushVars

SaveMessageLock(t) ==
    /\ Acquire(t, "sm_lock", "sm_body")
    /\ UNCHANGED <<essaysFile, openidsFile, messagesFile, frame, clock,
                   sequential, calls, faultsLeft, last, passed, saved, appended>>
    /\ UNCHANGED pushVars

\* read, concat and write inside one `with` block
SaveMessageBody(t) ==
    /\ pc[t] = "sm_body"
    /\ Release(t)
    /\ \E readOk \in ReadOutcomes(CanFail) :
       \E outcome \in IF readOk THEN WriteOutcomes(CanFail) ELSE {"ok"} :
          LET r == save_message_body(messagesFile, frame[t].message_data,
                                     readOk, outcome)
          IN  /\ Spend(~readOk \/ outcome # "ok")
              /\ messagesFile' = r[1]
              /\ Return(t, "save_message_to_excel", frame[t].message_data, r[2])
    /\ UNCHANGED <<essaysFile, openidsFile, clock, sequential, calls,
                   passed, saved, appended>>
    /\ UNCHANGED pushVars

StoreStep ==
    \E t \in Threads :
        \/ CallSaveOpenid(t) \/ SaveOpenidLoadLock(t) \/ SaveOpenidLoad(t)
        \/ SaveOpenidSaveLock(t) \/ SaveOpenidSave(t)
        \/ CallGetAllOpenids(t) \/ GetAllOpenidsLock(t) \/ GetAllOpenidsLoad(t)
        \/ CallSaveEssay(t) \/ SaveEssayLoad(t) \/ SaveEssaySaveLock(t)
        \/ SaveEssaySave(t)
        \/ CallGetAllEssays(t) \/ GetAllEssays(t)
        \/ CallGetLatestEssay(t) \/ GetLatestEssay(t)
        \/ CallSaveMessage(t) \/ SaveMessageLock(t) \/ SaveMessageBody(t)

\* the steps of a call that thread t has started
Proceed(t) ==
    \/ SaveOpenidLoadLock(t) \/ SaveOpenidLoad(t)
    \/ SaveOpenidSaveLock(t) \/ SaveOpenidSave(t)
    \/ GetAllOpenidsLock(t) \/ GetAllOpenidsLoad(t)
    \/ SaveEssayLoad(t) \/ SaveEssaySaveLock(t) \/ SaveEssaySave(t)
    \/ GetAllEssays(t) \/ GetLatestEssay(t)
    \/ SaveMessageLock(t) \/ SaveMessageBody(t)

(***************************************************************************)
(* The credential cache and the push dispatcher (class WeChatHandler).     *)
(* The route handlers are coroutines that never yield while they use the   *)
(* handler, and the handler has no lock: its methods run one at a time.    *)
(***************************************************************************)
MaxTokenCalls == 3  \* get_access_token calls made on their own in one run
MaxPushes == 2      \* push_to_all_subscribers calls in one run
MaxLapses == 2      \* times the clock is moved between calls

SafetyMargin == 300         \* seconds taken off the provider's lifetime
DefaultExpiresIn == 7200    \* data.get("expires_in", 7200)

NoToken == "<None>"         \* Python's None where a token is expected
Recipients == {"oA", "oB"}
Lapses == {300, 6900}       \* seconds that may pass between two calls
NetDelays == {0, 1}         \* seconds the token request may take

\* what the token endpoint, or the transport to it, may answer: no answer,
\* {errcode, errmsg}, {access_token} with or without expires_in, a JSON body
\* that is no object (a list, null), or {access_token, expires_in} with an
\* expires_in that is no number (null, a string)
FetchResponses ==
    { [kind |-> k, access_token |-> "", has_expires_in |-> FALSE, expires_in |-> 0] :
        k \in {"transport_error", "error_payload"} }
    \cup
    { [kind |-> "payload", access_token |-> tok, has_expires_in |-> FALSE,
       expires_in |-> 0] : tok \in {"tokA", "tokB"} }
    \cup
    { [kind |-> "payload", access_token |-> tok, has_expires_in |-> TRUE,
       expires_in |-> e] : tok \in {"tokA", "tokB"}, e \in {100, 600} }
    \cup
    { [kind |-> "not_an_object", access_token |-> "", has_expires_in |-> FALSE,
       expires_in |-> 0] }
    \cup
    { [kind |-> "payload_expires_in_not_a_number", access_token |-> tok,
       has_expires_in |-> TRUE, expires_in |-> 0] : tok \in {"tokA", "tokB"} }

\* what the send endpoint may answer; not_an_object is a JSON body that is
\* no object (a list, null)
PostResponses == {"errcode_0", "errcode_other", "transport_error", "not_an_object"}

\* seconds the send request may take
PostDelays == {2}

\* no token request has been answered with a token
NoFetch == <<>>

\* no send request was issued
NoPost == "none"

\* no /push_all_essays request has been answered
NoStatus == "none"

\* push_to_all_subscribers has not returned yet
NoReturn == <<-1, -1>>

\* push_to_all_subscribers was left by an exception
PushRaised == <<-2, -2>>

NoGet ==
    [inWindow |-> FALSE, at |-> 0, answer |-> "none", fetches |-> 0,
     failed |-> FALSE,
     raised |-> FALSE,
     cached |-> NoToken, result |-> NoToken]

\* WeChatHandler.__init__
PushInit ==
    /\ access_token = NoToken
    /\ token_expires_at = 0
    /\ now = 0
    /\ lapses = 0
    /\ tokenCalls = 0
    /\ pushes = 0
    /\ lastOp = "none"
    /\ lastGet = NoGet
    /\ gets = 0
    /\ posts = 0
    /\ pushPc = "idle"
    /\ openids = {}
    /\ remaining = {}
    /\ success_count = 0
    /\ failure_count = 0
    /\ sent = [id \in Recipients |-> 0]
    /\ succeeded = {}
    /\ pushRet = <<0, 0>>
    /\ lastPost = NoPost
    /\ push_status = NoStatus
    /\ fetched = NoFetch

\* a cache that never looks at the expiry time
CacheHit_IgnoresExpiry(token, expires_at, t) == token # NoToken

\* the test that opens get_access_token
CacheHit(token, expires_at, t) == token # NoToken /\ t < expires_at

ExpiresIn(resp) ==
    IF resp.has_expires_in THEN resp.expires_in ELSE DefaultExpiresIn

\* a fetch that stores the provider's own expiry
fetch_access_token_NoMargin(token, expires_at, resp, t) ==
    IF resp.kind = "not_an_object"
    THEN [ok |-> FALSE, raised |-> TRUE, access_token |-> token,
          token_expires_at |-> expires_at]
    ELSE IF resp.kind = "payload_expires_in_not_a_number" /\ resp.access_token # ""
    THEN [ok |-> FALSE, raised |-> TRUE, access_token |-> resp.access_token,
          token_expires_at |-> expires_at]
    ELSE IF resp.kind = "payload" /\ resp.access_token # ""
    THEN [ok |-> TRUE, raised |-> FALSE, access_token |-> resp.access_token,
          token_expires_at |-> t + ExpiresIn(resp)]
    ELSE [ok |-> FALSE, raised |-> FALSE, access_token |-> token,
          token_expires_at |-> expires_at]

\* WeChatHandler._fetch_access_token, answered by resp at time t.  Only a
\* RequestException is caught: data.get on a body that is no object raises
\* before anything is assigned, and the sum with an expires_in that is no
\* number raises after _access_token was assigned
fetch_access_token(token, expires_at, resp, t) ==
    IF resp.kind = "not_an_object"
    THEN [ok |-> FALSE, raised |-> TRUE, access_token |-> token,
          token_expires_at |-> expires_at]
    ELSE IF resp.kind = "payload_expires_in_not_a_number" /\ resp.access_token # ""
    THEN [ok |-> FALSE, raised |-> TRUE, access_token |-> resp.access_token,
          token_expires_at |-> expires_at]
    ELSE IF resp.kind = "payload" /\ resp.access_token # ""
    THEN [ok |-> TRUE, raised |-> FALSE, access_token |-> resp.access_token,
          token_expires_at |-> t + ExpiresIn(resp) - SafetyMargin]
    ELSE [ok |-> FALSE, raised |-> FALSE, access_token |-> token,
          token_expires_at |-> expires_at]

\* WeChatHandler.get_access_token called at time t; if it asks the provider,
\* the answer is resp and arrives after delay seconds.  When the fetch
\* raises, the call raises and returns no value
get_access_token(token, expires_at, t, resp, delay) ==
    IF CacheHit(token, expires_at, t)
    THEN [result |-> token, fetches |-> 0, failed |-> FALSE, raised |-> FALSE,
          t |-> t, access_token |-> token, token_expires_at |-> expires_at]
    ELSE LET f == fetch_access_token(token, expires_at, resp, t + delay)
         IN  [result |-> IF f.ok THEN f.access_token ELSE NoToken,
              fetches |-> 1, failed |-> ~f.ok, raised |-> f.raised,
              t |-> t + delay,
              access_token |-> f.access_token,
              token_expires_at |-> f.token_expires_at]

\* the answers and delays to consider: none but one when the cache answers
Answers(hit) ==
    IF hit THEN {CHOOSE resp \in FetchResponses : resp.kind = "transport_error"}
    ELSE FetchResponses

Delays(hit) == IF hit THEN {0} ELSE NetDelays

\* the token request of invocation g was answered with a token: the answer,
\* and what time.time() gave when it was stored
Fetched(g, resp, before) ==
    IF g.fetches = 1 /\ ~g.failed THEN <<[t |-> g.t, resp |-> resp]>> ELSE before

\* the invocation as the model records it; answer is what the provider was
\* heard to say, if it was asked
Observed(g, t, resp) ==
    [inWindow |-> access_token # NoToken /\ t < token_expires_at,
     at |-> t,
     answer |-> IF g.fetches = 0 THEN "none" ELSE resp.kind,
     fetches |-> g.fetches, failed |-> g.failed, raised |-> g.raised,
     cached |-> access_token,
     result |-> g.result]

\* a call of get_access_token on its own
GetAccessToken ==
    /\ pushPc = "idle"
    /\ tokenCalls < MaxTokenCalls
    /\ tokenCalls' = tokenCalls + 1
    /\ lastOp' = "get_access_token"
    /\ \E resp \in Answers(CacheHit(access_token, token_expires_at, now)),
          delay \in Delays(CacheHit(access_token, token_expires_at, now)) :
          LET g == get_access_token(access_token, token_expires_at, now, resp, delay)
          IN  /\ access_token' = g.access_token
              /\ token_expires_at' = g.token_expires_at
              /\ now' = g.t
              /\ gets' = g.fetches
              /\ posts' = 0
              /\ lastPost' = NoPost
              /\ lastGet' = Observed(g, now, resp)
              /\ fetched' = Fetched(g, resp, fetched)
    /\ UNCHANGED <<lapses, pushes, pushPc, openids, remaining, success_count,
                   failure_count, sent, succeeded, pushRet>>
    /\ UNCHANGED <<verifyPc, verifyArgs, verifyRet, push_status>>
    /\ UNCHANGED storeVars

\* WeChatHandler.send_text_message: the token, then one POST if there is
\* one, which takes post_delay seconds.  get_access_token is called outside
\* the try, and data.get on an answer that is no object is no
\* RequestException: in both cases the send raises
send_text_message(token, expires_at, t, resp, delay, post, post_delay) ==
    LET g == get_access_token(token, expires_at, t, resp, delay)
    IN  IF g.raised \/ g.result = NoToken
        THEN [get |-> g, posts |-> 0, post |-> NoPost, ok |-> FALSE,
              raised |-> g.raised, t |-> g.t]
        ELSE [get |-> g, posts |-> 1, post |-> post, ok |-> post = "errcode_0",
              raised |-> post = "not_an_object", t |-> g.t + post_delay]

\* a dispatcher without the early return
BatchIsEmpty_Never(ids) == FALSE

\* `if not openids`
BatchIsEmpty(ids) == ids = {}

\* `for openid in openids`: the identifiers the loop has still to reach
\* after the send to openid, whatever its outcome
LoopRest(rest, openid, ok) == rest \ {openid}

\* the two counters after a send
Tally(s, f, ok) == IF ok THEN <<s + 1, f>> ELSE <<s, f + 1>>

\* push_to_all_subscribers is called: an empty set returns (0, 0) at once
PushStart ==
    /\ pushPc = "idle"
    /\ pushes < MaxPushes
    /\ pushes' = pushes + 1
    /\ lastOp' = "push_to_all_subscribers"
    /\ \E ids \in SUBSET Recipients :
          /\ openids' = ids
          /\ IF BatchIsEmpty(ids)
             THEN /\ pushRet' = <<0, 0>>
                  /\ UNCHANGED <<pushPc, remaining>>
             ELSE /\ pushPc' = "loop"
                  /\ remaining' = ids
                  /\ pushRet' = NoReturn
    /\ success_count' = 0
    /\ failure_count' = 0
    /\ sent' = [id \in Recipients |-> 0]
    /\ succeeded' = {}
    /\ gets' = 0
    /\ posts' = 0
    /\ lastPost' = NoPost
    /\ UNCHANGED <<access_token, token_expires_at, now, lapses, tokenCalls,
                   lastGet>>
    /\ push_status' = NoStatus
    /\ UNCHANGED <<verifyPc, verifyArgs, verifyRet, fetched>>
    /\ UNCHANGED storeVars

\* one turn of the loop: send_text_message to the next identifier of the
\* set.  A send that raises ends push_to_all_subscribers, which has no try,
\* and push_all_essays, which called it, answers from its except branch
PushSend ==
    /\ pushPc = "loop"
    /\ remaining # {}
    /\ \E openid \in remaining,
          resp \in Answers(CacheHit(access_token, token_expires_at, now)),
          delay \in Delays(CacheHit(access_token, token_expires_at, now)),
          post \in PostResponses,
          post_delay \in PostDelays :
          LET r == send_text_message(access_token, token_expires_at, now, resp,
                                     delay, post, post_delay)
              tally == Tally(success_count, failure_count, r.ok)
          IN  /\ access_token' = r.get.access_token
              /\ token_expires_at' = r.get.token_expires_at
              /\ now' = r.t
              /\ gets' = gets + r.get.fetches
              /\ posts' = posts + r.posts
              /\ lastPost' = r.post
              /\ lastGet' = Observed(r.get, now, resp)
              /\ fetched' = Fetched(r.get, resp, fetched)
              /\ sent' = [sent EXCEPT ![openid] = @ + 1]
              /\ succeeded' = IF r.ok THEN succeeded \cup {openid} ELSE succeeded
              /\ remaining' = LoopRest(remaining, openid, r.ok)
              /\ IF r.raised
                 THEN /\ pushPc' = "idle"
                      /\ pushRet' = PushRaised
                      /\ push_status' = IF lastOp = "push_all_essays"
                                         THEN "error" ELSE push_status
                      /\ UNCHANGED <<success_count, failure_count>>
                 ELSE /\ success_count' = tally[1]
                      /\ failure_count' = tally[2]
                      /\ UNCHANGED <<pushPc, pushRet, push_status>>
    /\ UNCHANGED <<lapses, tokenCalls, pushes, lastOp, openids>>
    /\ UNCHANGED <<verifyPc, verifyArgs, verifyRet>>
    /\ UNCHANGED storeVars

\* push_all_essays, after the dispatch: `if success_count > 0`; an exception
\* out of the dispatch is answered with error (see PushSend)
RouteStatus(count) == IF count > 0 THEN "success" ELSE "error"

\* the thread of the event loop, which runs the route handlers
EventLoop == "event_loop"

\* POST /push_all_essays, up to `if not latest_essay`: get_latest_essay reads
\* the sheet without the lock; without an essay the answer is no_essay
PushAllEssays ==
    /\ pushPc = "idle"
    /\ pushes < MaxPushes
    /\ pushes' = pushes + 1
    /\ lastOp' = "push_all_essays"
    /\ \E readOk \in ReadOutcomes(CanFail) :
          LET latest_essay ==
                  get_latest_essay(load_essays_from_excel(essaysFile, readOk))
          IN  /\ Spend(~readOk)
              /\ IF latest_essay = None
                 THEN /\ push_status' = "no_essay"
                      /\ UNCHANGED pushPc
                 ELSE /\ push_status' = NoStatus
                      /\ pushPc' = "route_lock"
    /\ pushRet' = NoReturn
    /\ openids' = {}
    /\ remaining' = {}
    /\ success_count' = 0
    /\ failure_count' = 0
    /\ sent' = [id \in Recipients |-> 0]
    /\ succeeded' = {}
    /\ gets' = 0
    /\ posts' = 0
    /\ lastPost' = NoPost
    /\ UNCHANGED <<access_token, token_expires_at, now, lapses, tokenCalls,
                   lastGet>>
    /\ UNCHANGED <<verifyPc, verifyArgs, verifyRet, fetched>>
    /\ UNCHANGED <<essaysFile, openidsFile, messagesFile, file_lock, pc, frame,
                   clock, sequential, calls, last, passed, saved, appended>>

\* get_all_openids: _load_data takes the lock
RouteOpenidsLock ==
    /\ pushPc = "route_lock"
    /\ file_lock = NoThread
    /\ file_lock' = EventLoop
    /\ pushPc' = "route_load"
    /\ UNCHANGED <<access_token, token_expires_at, now, lapses, tokenCalls,
                   pushes, lastOp, lastGet, gets, posts, openids, remaining,
                   success_count, failure_count, sent, succeeded, pushRet,
                   lastPost, push_status>>
    /\ UNCHANGED <<verifyPc, verifyArgs, verifyRet, fetched>>
    /\ UNCHANGED <<essaysFile, openidsFile, messagesFile, pc, frame, clock,
                   sequential, calls, faultsLeft, last, passed, saved, appended>>

\* the identifier file is read and the lock released; the set goes to
\* push_to_all_subscribers, which returns (0, 0) at once when it is empty
RouteDispatch ==
    /\ pushPc = "route_load"
    /\ file_lock' = NoThread
    /\ \E readOk \in ReadOutcomes(CanFail) :
          LET all_openids == get_all_openids(load_data(openidsFile, readOk))
          IN  /\ Spend(~readOk)
              /\ openids' = all_openids
              /\ IF BatchIsEmpty(all_openids)
                 THEN /\ pushRet' = <<0, 0>>
                      /\ push_status' = RouteStatus(0)
                      /\ pushPc' = "idle"
                      /\ UNCHANGED remaining
                 ELSE /\ pushPc' = "loop"
                      /\ remaining' = all_openids
                      /\ UNCHANGED <<pushRet, push_status>>
    /\ UNCHANGED <<access_token, token_expires_at, now, lapses, tokenCalls,
                   pushes, lastOp, lastGet, gets, posts, success_count,
                   failure_count, sent, succeeded, lastPost>>
    /\ UNCHANGED <<verifyPc, verifyArgs, verifyRet, fetched>>
    /\ UNCHANGED <<essaysFile, openidsFile, messagesFile, pc, frame, clock,
                   sequential, calls, last, passed, saved, appended>>

\* the loop is over: the counters are returned
PushReturn ==
    /\ pushPc = "loop"
    /\ remaining = {}
    /\ pushPc' = "idle"
    /\ pushRet' = <<success_count, failure_count>>
    /\ push_status' = IF lastOp = "push_all_essays"
                       THEN RouteStatus(success_count) ELSE push_status
    /\ UNCHANGED <<access_token, token_expires_at, now, lapses, tokenCalls,
                   pushes, lastOp, lastGet, gets, posts, openids, remaining,
                   success_count, failure_count, sent, succeeded,
                   lastPost>>
    /\ UNCHANGED <<verifyPc, verifyArgs, verifyRet, fetched>>
    /\ UNCHANGED storeVars

\* time passes between two calls
TimePasses ==
    /\ pushPc = "idle"
    /\ lapses < MaxLapses
    /\ lapses' = lapses + 1
    /\ \E d \in Lapses : now' = now + d
    /\ UNCHANGED <<access_token, token_expires_at, tokenCalls, pushes, lastOp,
                   lastGet, gets, posts, pushPc, openids, remaining,
                   success_count, failure_count, sent, succeeded, pushRet,
                   lastPost>>
    /\ UNCHANGED <<verifyPc, verifyArgs, verifyRet, push_status, fetched>>
    /\ UNCHANGED storeVars


(***************************************************************************)
(* Strings as Python compares and encodes them, and hashlib.sha1.          *)
(* A str is a sequence of one-character strings; a 32-bit word is a pair   *)
(* <<high half, low half>> of 16-bit numbers.                              *)
(***************************************************************************)
\* the characters of the strings handled here, by run of code points
UpperChars ==
    <<"A", "B", "C", "D", "E", "F", "G", "H", "I", "J", "K", "L", "M", "N",
      "O", "P", "Q", "R", "S", "T", "U", "V", "W", "X", "Y", "Z">>
LowerChars ==
    <<"a", "b", "c", "d", "e", "f", "g", "h", "i", "j", "k", "l", "m", "n",
      "o", "p", "q", "r", "s", "t", "u", "v", "w", "x", "y", "z">>

Index(c, run) == CHOOSE i \in 1..Len(run) : run[i] = c

\* ord(c)
Ord(c) ==
    IF \E i \in 1..Len(DigitChars) : DigitChars[i] = c
    THEN 47 + Index(c, DigitChars)
    ELSE IF \E i \in 1..Len(UpperChars) : UpperChars[i] = c
    THEN 64 + Index(c, UpperChars)
    ELSE IF c = "_" THEN 95
    ELSE 96 + Index(c, LowerChars)

\* str.encode of ASCII text
Encode(s) == [i \in 1..Len(s) |-> Ord(s[i])]

\* a < b as Python orders str values
RECURSIVE StrLess(_, _)
StrLess(a, b) ==
    IF b = <<>> THEN FALSE
    ELSE IF a = <<>> THEN TRUE
    ELSE IF Ord(Head(a)) # Ord(Head(b)) THEN Ord(Head(a)) < Ord(Head(b))
    ELSE StrLess(Tail(a), Tail(b))

\* one string put in its place in a sorted list
RECURSIVE Insert(_, _)
Insert(x, sorted) ==
    IF sorted = <<>> THEN <<x>>
    ELSE IF StrLess(x, Head(sorted)) THEN <<x>> \o sorted
    ELSE <<Head(sorted)>> \o Insert(x, Tail(sorted))

\* list.sort() on a list of str
RECURSIVE SortStrings(_)
SortStrings(l) ==
    IF l = <<>> THEN <<>>
    ELSE Insert(l[Len(l)], SortStrings(SubSeq(l, 1, Len(l) - 1)))

\* "".join(l)
RECURSIVE Join(_)
Join(l) == IF l = <<>> THEN <<>> ELSE Head(l) \o Join(Tail(l))

Half == 2^16

Bit(op, x, y) ==
    CASE op = "xor" -> (x + y) % 2
      [] op = "and" -> x * y
      [] op = "or"  -> x + y - x * y

\* a bitwise operation on two numbers of n bits
RECURSIVE BitOp(_, _, _, _)
BitOp(op, a, b, n) ==
    IF n = 0 THEN 0
    ELSE Bit(op, a % 2, b % 2) + 2 * BitOp(op, a \div 2, b \div 2, n - 1)

\* the operations on hexadecimal digits, tabulated
DigitOp ==
    [op \in {"xor", "and", "or"} |->
        [a \in 0..15 |-> [b \in 0..15 |-> BitOp(op, a, b, 4)]]]

\* a bitwise operation on two 16-bit numbers, digit by digit
HalfOp(op, a, b) ==
    4096 * DigitOp[op][a \div 4096][b \div 4096]
    + 256 * DigitOp[op][(a \div 256) % 16][(b \div 256) % 16]
    + 16 * DigitOp[op][(a \div 16) % 16][(b \div 16) % 16]
    + DigitOp[op][a % 16][b % 16]

WordOp(op, u, v) == <<HalfOp(op, u[1], v[1]), HalfOp(op, u[2], v[2])>>
WordNot(u) == <<Half - 1 - u[1], Half - 1 - u[2]>>

\* addition modulo 2^32
WordAdd(u, v) ==
    LET lo == u[2] + v[2]
        hi == u[1] + v[1] + (lo \div Half)
    IN  <<hi % Half, lo % Half>>

\* rotation to the left by n bits, 0 < n < 32
Rotl(u, n) ==
    LET w == IF n >= 16 THEN <<u[2], u[1]>> ELSE u
        k == n % 16
    IN  IF k = 0 THEN w
        ELSE <<((w[1] * 2^k) % Half) + (w[2] \div 2^(16 - k)),
               ((w[2] * 2^k) % Half) + (w[1] \div 2^(16 - k))>>

\* the message with the 1 bit, the zero bytes and the 64-bit length
Sha1Pad(m) ==
    LET n == 64 * (((Len(m) + 8) \div 64) + 1)
        bits == 8 * Len(m)
    IN  [i \in 1..n |->
            IF i <= Len(m) THEN m[i]
            ELSE IF i = Len(m) + 1 THEN 128
            ELSE IF i = n THEN bits % 256
            ELSE IF i = n - 1 THEN (bits \div 256) % 256
            ELSE IF i = n - 2 THEN (bits \div 65536) % 256
            ELSE 0]

\* the 16 big-endian words of block b (from 0) of the padded message
Sha1Block(p, b) ==
    [j \in 1..16 |->
        LET o == 64 * b + 4 * (j - 1)
        IN  <<256 * p[o + 1] + p[o + 2], 256 * p[o + 3] + p[o + 4]>>]

\* the message schedule: 80 words from the block's 16
RECURSIVE Sha1Schedule(_)
Sha1Schedule(w) ==
    IF Len(w) = 80 THEN w
    ELSE LET t == Len(w) + 1
             x1 == WordOp("xor", w[t - 3], w[t - 8])
             x2 == WordOp("xor", w[t - 14], w[t - 16])
             x == WordOp("xor", x1, x2)
         IN  Sha1Schedule(Append(w, Rotl(x, 1)))

Sha1F(t, b, c, d) ==
    LET bc == WordOp("and", b, c)
        bd == WordOp("and", b, d)
        cd == WordOp("and", c, d)
        nbd == WordOp("and", WordNot(b), d)
        bxc == WordOp("xor", b, c)
        bcbd == WordOp("or", bc, bd)
    IN  IF t < 20 THEN WordOp("or", bc, nbd)
        ELSE IF t < 40 THEN WordOp("xor", bxc, d)
        ELSE IF t < 60 THEN WordOp("or", bcbd, cd)
        ELSE WordOp("xor", bxc, d)

Sha1K(t) ==
    IF t < 20 THEN <<23170, 31129>>
    ELSE IF t < 40 THEN <<28377, 60321>>
    ELSE IF t < 60 THEN <<36635, 48348>>
    ELSE <<51810, 49622>>

\* round t on the working variables s = <<a, b, c, d, e>>
Sha1Round(t, s, w) ==
    LET r == Rotl(s[1], 5)
        f == Sha1F(t, s[2], s[3], s[4])
        t1 == WordAdd(r, f)
        t2 == WordAdd(t1, s[5])
        t3 == WordAdd(t2, Sha1K(t))
        temp == WordAdd(t3, w[t + 1])
    IN  <<temp, s[1], Rotl(s[2], 30), s[3], s[4]>>

\* rounds from..to-1, in order: the first half, then the second on its result
RECURSIVE Sha1Rounds(_, _, _, _)
Sha1Rounds(from, to, s, w) ==
    IF to = from + 1 THEN Sha1Round(from, s, w)
    ELSE LET mid == (from + to) \div 2
         IN  CHOOSE r \in {Sha1Rounds(mid, to, half, w) :
                              half \in {Sha1Rounds(from, mid, s, w)}} : TRUE

Sha1Start ==
    <<<<26437, 8961>>, <<61389, 43913>>, <<39098, 56574>>, <<4146, 21622>>,
      <<50130, 57840>>>>

\* the blocks from b on, folded into the state h
RECURSIVE Sha1Blocks(_, _, _)
Sha1Blocks(p, b, h) ==
    IF 64 * b >= Len(p) THEN h
    ELSE CHOOSE r \in
            {Sha1Blocks(p, b + 1, <<WordAdd(h[1], s[1]), WordAdd(h[2], s[2]),
                                    WordAdd(h[3], s[3]), WordAdd(h[4], s[4]),
                                    WordAdd(h[5], s[5])>>) :
                s \in {Sha1Rounds(0, 80, h, w) :
                          w \in {Sha1Schedule(Sha1Block(p, b))}}} : TRUE

HexDigits ==
    <<"0", "1", "2", "3", "4", "5", "6", "7", "8", "9", "a", "b", "c", "d",
      "e", "f">>

\* the four hexadecimal digits of a 16-bit number
Hex16(n) ==
    <<HexDigits[(n \div 4096) + 1], HexDigits[((n \div 256) % 16) + 1],
      HexDigits[((n \div 16) % 16) + 1], HexDigits[(n % 16) + 1]>>

\* hashlib.sha1(bytes).hexdigest()
sha1_hexdigest(bytes) ==
    CHOOSE r \in
        {Join(<<Hex16(h[1][1]), Hex16(h[1][2]), Hex16(h[2][1]), Hex16(h[2][2]),
                Hex16(h[3][1]), Hex16(h[3][2]), Hex16(h[4][1]), Hex16(h[4][2]),
                Hex16(h[5][1]), Hex16(h[5][2])>>) :
            h \in {Sha1Blocks(p, 0, Sha1Start) : p \in {Sha1Pad(bytes)}}} : TRUE

(***************************************************************************)
(* The handshake check (WeChatHandler.verify_signature).                   *)
(***************************************************************************)
\* self.token
Token ==
    <<"Y", "O", "U", "R", "_", "W", "E", "C", "H", "A", "T", "_", "T", "O",
      "K", "E", "N">>

\* a check that hashes the three strings in the order given
verify_signature_Unsorted(signature, timestamp, nonce) ==
    sha1_hexdigest(Encode(Join(<<Token, timestamp, nonce>>))) = signature

\* WeChatHandler.verify_signature
verify_signature(signature, timestamp, nonce) ==
    sha1_hexdigest(Encode(Join(SortStrings(<<Token, timestamp, nonce>>)))) = signature

Timestamps == {<<"1">>, <<"2">>}
Nonces == {<<"a">>, <<"b">>, <<"A">>, <<"0">>}

\* a string with its first character replaced by another hexadecimal digit
Tweak(s) == <<IF Head(s) = "0" THEN "1" ELSE "0">> \o Tail(s)

\* the signatures a caller may present: the right one for some timestamp
\* and nonce, and each of those with one character changed
Signatures ==
    LET right == {sha1_hexdigest(Encode(Join(SortStrings(<<Token, ts, n>>)))) :
                    ts \in Timestamps, n \in Nonces}
    IN  right \cup {Tweak(d) : d \in right}

NoArgs == [signature |-> <<>>, timestamp |-> <<>>, nonce |-> <<>>]

\* no handshake request is being served
VerifyIdle == verifyPc = "none" /\ verifyArgs = NoArgs /\ verifyRet = FALSE

\* a handshake request has arrived
VerifyCalled ==
    /\ verifyPc = "called"
    /\ verifyArgs \in [signature : Signatures, timestamp : Timestamps,
                       nonce : Nonces]
    /\ verifyRet = FALSE

\* the call of verify_signature made for the request
VerifySignature ==
    /\ verifyPc = "called"
    /\ verifyPc' = "returned"
    /\ verifyRet' = verify_signature(verifyArgs.signature, verifyArgs.timestamp,
                                     verifyArgs.nonce)
    /\ UNCHANGED verifyArgs
    /\ UNCHANGED <<access_token, token_expires_at, now, lapses, tokenCalls,
                   pushes, lastOp, lastGet, gets, posts, pushPc, openids,
                   remaining, success_count, failure_count, sent, succeeded,
                   pushRet, lastPost, push_status, fetched>>
    /\ UNCHANGED storeVars

(***************************************************************************)
(* The webhook processor (WeChatHandler.process_and_reply), called by the  *)
(* POST /wechat route with the request body.                               *)
(***************************************************************************)
\* find() found no such element
Missing == "<missing>"
\* .text of an element that has no text
NoText == "<None>"
\* a message text that holds the end mark of a CDATA section and a tag
CdataBreaker == "]]><a>"

\* an inbound body as ET.fromstring and find(...).text give it
Body(to, from, type, content, event) ==
    [parsed |-> TRUE, ToUserName |-> to, FromUserName |-> from,
     MsgType |-> type, Content |-> content, Event |-> event]

Unparseable ==
    [parsed |-> FALSE, ToUserName |-> Missing, FromUserName |-> Missing,
     MsgType |-> Missing, Content |-> Missing, Event |-> Missing]

Senders == OpenIds \cup {NoText}

Bodies ==
    {Unparseable}
    \cup {Body("gh", from, "text", content, Missing) :
            from \in Senders, content \in {"hi", CdataBreaker, Missing}}
    \cup {Body("gh", from, "event", Missing, event) :
            from \in Senders, event \in {"subscribe", "CLICK", Missing}}
    \cup {Body("gh", from, type, Missing, Missing) :
            from \in Senders, type \in {"image", Missing}}
    \cup {Body(Missing, "oA", "text", "hi", Missing),
          Body("gh", Missing, "text", "hi", Missing)}

\* the fixed texts of the replies
EchoHead == "echo:["
EchoTail == "] hint:web-panel"
WelcomeText == "welcome"
RecordedText == "recorded"
UnsupportedText == "text-only"
FailureText == "failure"

\* str(v) as str.format writes a value
PyStr(v) == IF v = NoText THEN "None" ELSE v

\* a text as the pieces a reader of XML tells apart
Tokens(text) == IF text = CdataBreaker THEN <<"]]>", "<a>">> ELSE <<text>>

\* WeChatHandler._generate_reply_xml; content comes in pieces
generate_reply_xml(to_user, from_user, content, t) ==
    <<"<xml>", "<ToUserName>", "<![CDATA[">> \o Tokens(PyStr(to_user))
    \o <<"]]>", "</ToUserName>", "<FromUserName>", "<![CDATA[">>
    \o Tokens(PyStr(from_user))
    \o <<"]]>", "</FromUserName>", "<CreateTime>", ToString(t), "</CreateTime>",
         "<MsgType>", "<![CDATA[", "text", "]]>", "</MsgType>",
         "<Content>", "<![CDATA[">>
    \o content
    \o <<"]]>", "</Content>", "</xml>">>

\* a processor that reads Content or Event along with the header, before
\* it registers the sender
HeaderRaises_WithContent(body) ==
    \/ ~body.parsed
    \/ Missing \in {body.ToUserName, body.FromUserName, body.MsgType}
    \/ body.MsgType = "text" /\ body.Content = Missing
    \/ body.MsgType = "event" /\ body.Event = Missing

\* the lookup of ToUserName, FromUserName or MsgType raised
HeaderRaises(body) ==
    \/ ~body.parsed
    \/ Missing \in {body.ToUserName, body.FromUserName, body.MsgType}

\* the lookup of Content or Event raised
Raised == <<>>

\* a selection that answers every event as it answers subscribe
reply_content_EventsAlike(body) ==
    IF body.MsgType = "text"
    THEN IF body.Content = Missing THEN Raised
         ELSE <<EchoHead>> \o Tokens(PyStr(body.Content)) \o <<EchoTail>>
    ELSE IF body.MsgType = "event"
    THEN IF body.Event = Missing THEN Raised ELSE <<WelcomeText>>
    ELSE <<UnsupportedText>>

\* the choice of reply_content by MsgType and Event
reply_content(body) ==
    IF body.MsgType = "text"
    THEN IF body.Content = Missing THEN Raised
         ELSE <<EchoHead>> \o Tokens(PyStr(body.Content)) \o <<EchoTail>>
    ELSE IF body.MsgType = "event"
    THEN IF body.Event = Missing THEN Raised
         ELSE IF body.Event = "subscribe" THEN <<WelcomeText>>
         ELSE <<RecordedText>>
    ELSE <<UnsupportedText>>

\* what the route answers with: the reply and its media type
Reply(to_user, from_user, content, t) ==
    [xml |-> generate_reply_xml(to_user, from_user, content, t),
     content_type |-> "application/xml",
     reply_content |-> content]

\* the reply of the except branch
FailureReply(t) == Reply("temp", "temp", <<FailureText>>, t)

\* `if from_user:`
Truthy(text) == text # NoText

\* process_and_reply up to the call of save_openid: a body whose header
\* cannot be read is answered by the except branch at once
CallProcessAndReply(t) ==
    /\ MayCall(t)
    /\ calls' = calls + 1
    /\ \E body \in Bodies :
          IF HeaderRaises(body)
          THEN Return(t, "process_and_reply", body, FailureReply(now))
          ELSE /\ frame' = [frame EXCEPT ![t] =
                              [EmptyFrame EXCEPT !.body = body,
                                                 !.openid = body.FromUserName]]
               /\ pc' = [pc EXCEPT ![t] =
                            IF Truthy(body.FromUserName) THEN "so_load_lock"
                            ELSE "pr_reply"]
               /\ last' = [op |-> "process_and_reply", arg |-> body, val |-> None]
    /\ UNCHANGED <<essaysFile, openidsFile, messagesFile, file_lock, clock,
                   sequential, faultsLeft, passed, saved, appended>>
    /\ UNCHANGED pushVars

\* the rest of process_and_reply: the reply is chosen and built
ProcessReply(t) ==
    /\ pc[t] = "pr_reply"
    /\ LET body == frame[t].body
           content == reply_content(body)
       IN  Return(t, "process_and_reply", body,
                  IF content = Raised THEN FailureReply(now)
                  ELSE Reply(body.FromUserName, body.ToUserName, content, now))
    /\ UNCHANGED <<essaysFile, openidsFile, messagesFile, file_lock, clock,
                   sequential, calls, faultsLeft, passed, saved, appended>>
    /\ UNCHANGED pushVars

HookStep ==
    \E t \in Threads :
        \/ CallProcessAndReply(t)
        \/ SaveOpenidLoadLock(t)
        \/ SaveOpenidLoad(t)
        \/ SaveOpenidSaveLock(t)
        \/ SaveOpenidSave(t)
        \/ ProcessReply(t)

(***************************************************************************)
(* Specifications.                                                         *)
(***************************************************************************)
vars == <<storeVars, pushVars>>

\* the store used from several threads, with file accesses that may fail
Init ==
    /\ StoreInit /\ sequential = FALSE /\ faultsLeft = MaxFaults
    /\ PushInit /\ VerifyIdle
Next == StoreStep
Spec == Init /\ [][Next]_vars

\* the same under fair scheduling: a thread that can go on with its call, or
\* can again and again (it waits for the lock), does go on
SpecFair == Spec /\ \A t \in Threads : SF_vars(Proceed(t))

\* the store called one call after the other, every file access succeeding
InitSeq ==
    /\ StoreInit /\ sequential = TRUE /\ faultsLeft = 0
    /\ PushInit /\ VerifyIdle
SpecSeq == InitSeq /\ [][Next]_vars

\* the credential cache: calls of get_access_token as time passes
NextToken == GetAccessToken \/ TimePasses
SpecToken == InitSeq /\ [][NextToken]_vars

\* the push dispatcher: batches, each send using the credential cache, as
\* time passes
NextPush == PushStart \/ PushSend \/ PushReturn \/ TimePasses
SpecPush == InitSeq /\ [][NextPush]_vars

\* the handshake check, applied to a request that has arrived
InitVerify ==
    /\ StoreInit /\ sequential = TRUE /\ faultsLeft = 0
    /\ PushInit /\ VerifyCalled
NextVerify == VerifySignature
SpecVerify == InitVerify /\ [][NextVerify]_vars

\* the dispatch route on a store that earlier submissions and subscriptions
\* have filled: no essay or one, and any of the identifiers
RouteEssayFiles ==
    {IntactFile(<<>>),
     IntactFile(<<NewEssay(<<(<<"T", "1">>), (<<"A", "n", "n">>), (<<"c", "h", "1">>)>>, 0)>>)}

RouteOpenidFiles ==
    {IntactFile(l) : l \in UNION {ListsOfSet(S) : S \in SUBSET OpenIds}}

InitRoute ==
    /\ essaysFile \in RouteEssayFiles
    /\ openidsFile \in RouteOpenidFiles
    /\ messagesFile = IntactFile(<<>>)
    /\ file_lock = NoThread
    /\ pc = [t \in Threads |-> "idle"]
    /\ frame = [t \in Threads |-> EmptyFrame]
    /\ clock = 0
    /\ calls = 0
    /\ last = [op |-> "none", arg |-> None, val |-> None]
    /\ passed = {}
    /\ saved = {}
    /\ appended = <<>>
    /\ sequential = TRUE
    /\ faultsLeft = 0
    /\ PushInit
    /\ VerifyIdle

NextRoute ==
    \/ PushAllEssays \/ RouteOpenidsLock \/ RouteDispatch
    \/ PushSend \/ PushReturn \/ TimePasses
SpecRoute == InitRoute /\ [][NextRoute]_vars

\* the webhook processor, one request after the other, every file access
\* succeeding
SpecHookSeq == InitSeq /\ [][HookStep]_vars

\* the webhook: the route's coroutine never yields inside process_and_reply,
\* so requests are served one after the other; file accesses may fail
InitHook ==
    /\ StoreInit /\ sequential = TRUE /\ faultsLeft = MaxFaults
    /\ PushInit /\ VerifyIdle
NextHook == HookStep
SpecHook == InitHook /\ [][NextHook]_vars

(***************************************************************************)
(* The stored collections, as a reader that meets no failure sees them.    *)
(***************************************************************************)
StoredOpenids == get_all_openids(load_data(openidsFile, TRUE))
StoredEssays == load_essays_from_excel(essaysFile, TRUE)

NoDuplicates(list) ==
    \A i, j \in 1..Len(list) : list[i] = list[j] => i = j

\* C1: in a run of store calls made one after the other on a store that
\* starts empty and whose file accesses succeed, between calls the stored
\* identifier list has no duplicates and its members are exactly the
\* identifiers passed to save_openid; and a save_openid of an identifier that
\* is already stored leaves the file as it is and returns True.
C1_DedupExactMembership ==
    /\ [](AllIdle =>
            /\ NoDuplicates(load_data(openidsFile, TRUE))
            /\ StoredOpenids = passed)
    /\ [][\A t \in Threads :
            (pc[t] = "so_load" /\ frame[t].openid \in StoredOpenids)
                => /\ openidsFile' = openidsFile
                   /\ pc'[t] = "idle"
                   /\ last' = [op |-> "save_openid", arg |-> frame[t].openid,
                               val |-> TRUE]]_vars

\* both identifiers were saved one after the other, the last call being a
\* save_openid that returned True
C1_Witness ==
    /\ sequential /\ AllIdle
    /\ last.op = "save_openid" /\ last.val = TRUE
    /\ passed = OpenIds
    /\ Len(load_data(openidsFile, TRUE)) = Cardinality(OpenIds)

\* C2: no lost update.  Whenever no call is in progress and no file access
\* has failed, every identifier whose save_openid returned True and every
\* essay whose save_essay_data returned True is in its file.
C2_NoLostUpdate ==
    (AllIdle /\ faultsLeft = MaxFaults) =>
        /\ saved \subseteq StoredOpenids
        /\ Len(StoredEssays) >= Len(appended)

\* a cell as written and the cell read back for it
CellMatches(written, stored) ==
    \/ stored = written
    \/ stored = InferCell(written, FALSE)
    \/ /\ written.k = "str" /\ IsNumericText(written.s)
       /\ stored = InferCell(written, TRUE)

RowMatches(written, stored) ==
    \A c \in DOMAIN written : CellMatches(written[c], stored[c])

\* the rows of `written` are found in `stored`, in the same relative order
RECURSIVE IsSubsequence(_, _)
IsSubsequence(written, stored) ==
    IF written = <<>> THEN TRUE
    ELSE IF stored = <<>> THEN FALSE
    ELSE IF RowMatches(Head(written), Head(stored))
         THEN IsSubsequence(Tail(written), Tail(stored))
         ELSE IsSubsequence(written, Tail(stored))

\* C3: the essay collection only grows.  Every record written by a
\* save_essay_data that returned True is in the stored collection, in its
\* original relative order, whatever calls ran since and whether or not a
\* read of the sheet failed.
C3_EssaysOnlyGrow == IsSubsequence(appended, StoredEssays)

\* C4: an identifier that is stored is never deleted: it is stored after
\* every step of every store call.
C4_NeverDeleted ==
    [][\A id \in OpenIds : id \in StoredOpenids => id \in StoredOpenids']_vars

\* C5: in a run of calls made one after the other whose file accesses
\* succeed, get_latest_essay returns the record appended last, with the
\* title, author and chapter it was submitted with, and returns nothing when
\* no essay was appended.
C5_LatestIsAppended ==
    last.op = "get_latest_essay" =>
        IF appended = <<>> THEN last.val = None
        ELSE /\ last.val # None
             /\ \A c \in {"title", "author", "chapter"} :
                    last.val[c] = appended[Len(appended)][c]

\* C6: in a run of calls made one after the other whose file accesses
\* succeed, get_all_essays returns the appended records, each as it was
\* appended, in the reverse of insertion order, and its first element is
\* what get_latest_essay returns.
C6_ListIsReverse ==
    last.op = "get_all_essays" =>
        /\ last.val = Reverse(appended)
        /\ last.val # <<>> => last.val[1] = get_latest_essay(StoredEssays)

\* C7: the credential cache.  The first get_access_token call asks the
\* provider; a call made while a token is cached and the time is before
\* expiresAt asks nothing and returns the cached token; a call made at or
\* after expiresAt asks the provider exactly once.
C7_CacheWindow ==
    lastOp = "get_access_token" =>
        /\ tokenCalls = 1 => lastGet.fetches = 1
        /\ lastGet.inWindow =>
              /\ lastGet.fetches = 0 /\ gets = 0
              /\ lastGet.result = lastGet.cached
        /\ ~lastGet.inWindow => lastGet.fetches = 1 /\ gets = 1

\* a third call, made after the cached token expired, fetched a new one
C7_Witness ==
    /\ lastOp = "get_access_token" /\ tokenCalls = 3 /\ lapses > 0
    /\ lastGet.cached # NoToken /\ ~lastGet.inWindow
    /\ lastGet.fetches = 1
    /\ lastGet.result \notin {NoToken, lastGet.cached}

\* C8: a get_access_token call whose fetch fails, for a transport error or
\* an answer without access_token, returns nothing (it does return, with
\* no token), also when a token is still held, after one request and no
\* more; and the cache it leaves answers no later call, so the next call
\* asks the provider again.
C8_FailedFetch ==
    lastOp = "get_access_token" =>
        /\ lastGet.fetches <= 1 /\ gets = lastGet.fetches
        /\ lastGet.answer \in {"transport_error", "error_payload", "not_an_object"} =>
              /\ ~lastGet.raised
              /\ lastGet.result = NoToken
              /\ lastGet.fetches = 1
              /\ ~(access_token # NoToken /\ now < token_expires_at)

\* C9: push_to_all_subscribers called with an empty set returns (0, 0) at
\* once: the loop is not entered, no token request and no send request is
\* issued, and the credential cache is as it was.
C9_EmptyBatch ==
    [][(pushes' = pushes + 1 /\ openids' = {}) =>
            /\ pushRet' = <<0, 0>> /\ pushPc' = "idle"
            /\ gets' = 0 /\ posts' = 0
            /\ access_token' = access_token
            /\ token_expires_at' = token_expires_at]_vars

\* an empty batch returned after an earlier batch had filled the cache
C9_Witness ==
    /\ lastOp = "push_to_all_subscribers" /\ pushPc = "idle"
    /\ pushes = 2 /\ openids = {} /\ pushRet = <<0, 0>>
    /\ access_token # NoToken

\* C10: when a call of push_to_all_subscribers is over, send_text_message
\* was invoked exactly once for every identifier of the set and for no
\* other, whatever the outcome of the earlier sends, and the
\* result is (s, f) with s the number of sends that returned True and f the
\* number that returned False: s + f = N, (0, N) when all failed, (N, 0)
\* when all succeeded.
C10_BatchTally ==
    (lastOp = "push_to_all_subscribers" /\ pushPc = "idle") =>
        /\ \A id \in Recipients : sent[id] = IF id \in openids THEN 1 ELSE 0
        /\ pushRet[1] = Cardinality(succeeded)
        /\ pushRet[2] = Cardinality(openids \ succeeded)
        /\ pushRet[1] + pushRet[2] = Cardinality(openids)

\* C11: a send_text_message made when get_access_token yields no credential
\* returns False for that recipient and issues no send request; and a send
\* returns True only if a credential was obtained and the send endpoint
\* answered errcode 0.
C11_SendNeedsCredential ==
    [][\A id \in Recipients :
          sent'[id] = sent[id] + 1 =>
            /\ lastGet'.result = NoToken =>
                  /\ posts' = posts /\ lastPost' = NoPost
                  /\ failure_count' = failure_count + 1
                  /\ success_count' = success_count
                  /\ succeeded' = succeeded
            /\ success_count' = success_count + 1 =>
                  /\ lastGet'.result # NoToken
                  /\ posts' = posts + 1 /\ lastPost' = "errcode_0"]_vars

\* two strings of the same length that differ in exactly one position
OneCharApart(a, b) ==
    /\ Len(a) = Len(b)
    /\ Cardinality({i \in 1..Len(a) : a[i] # b[i]}) = 1

\* C12: verify_signature returns True exactly when the signature is the
\* SHA-1 hex digest of the joined, sorted token, timestamp and nonce; when it
\* returned True, the same call with one character of the signature, of the
\* timestamp or of the nonce changed returns False; and the call changes
\* neither the credential cache nor a stored file.
C12_VerifySignature ==
    /\ [](verifyPc = "returned" =>
            /\ verifyRet =
                 (verifyArgs.signature =
                    sha1_hexdigest(Encode(Join(SortStrings(
                        <<Token, verifyArgs.timestamp, verifyArgs.nonce>>)))))
            /\ verifyRet =>
                 /\ \A sig \in Signatures :
                       OneCharApart(sig, verifyArgs.signature) =>
                         ~verify_signature(sig, verifyArgs.timestamp,
                                           verifyArgs.nonce)
                 /\ \A ts \in Timestamps :
                       OneCharApart(ts, verifyArgs.timestamp) =>
                         ~verify_signature(verifyArgs.signature, ts,
                                           verifyArgs.nonce)
                 /\ \A n \in Nonces :
                       OneCharApart(n, verifyArgs.nonce) =>
                         ~verify_signature(verifyArgs.signature,
                                           verifyArgs.timestamp, n))
    /\ [][verifyPc' # verifyPc =>
            UNCHANGED <<access_token, token_expires_at, essaysFile,
                        openidsFile, messagesFile>>]_vars

\* the check accepted timestamp "1" and nonce "a" with the digest that
\* hashlib gives for "1YOUR_WECHAT_TOKENa"
C12_Witness ==
    /\ verifyPc = "returned" /\ verifyRet
    /\ verifyArgs.timestamp = <<"1">> /\ verifyArgs.nonce = <<"a">>
    /\ verifyArgs.signature =
         <<"d", "8", "6", "1", "d", "e", "4", "1", "b", "5", "9", "5", "8", "e",
           "5", "4", "5", "1", "a", "b", "0", "a", "a", "b", "9", "7", "9", "2",
           "e", "8", "9", "1", "7", "d", "4", "7", "0", "9", "0", "c">>
\* the pieces that are markup to a reader of XML
MarkupTokens ==
    {"<xml>", "</xml>", "<ToUserName>", "</ToUserName>", "<FromUserName>",
     "</FromUserName>", "<CreateTime>", "</CreateTime>", "<MsgType>",
     "</MsgType>", "<Content>", "</Content>", "<![CDATA[", "]]>", "<a>"}

\* the first position from i on that holds a piece of set S, or 0
FirstIn(tokens, i, S) ==
    LET hits == {j \in i..Len(tokens) : tokens[j] \in S}
    IN  IF hits = {} THEN 0 ELSE CHOOSE j \in hits : \A k \in hits : j <= k

\* the element that starts at position i, read as a parser reads it: the
\* open tag, then character data and CDATA sections (a section ends at the
\* first end mark) up to the close tag; any other markup is an error
ReadElement(tokens, i, open, close) ==
    LET cdata == i + 1 <= Len(tokens) /\ tokens[i + 1] = "<![CDATA["
        from == IF cdata THEN i + 2 ELSE i + 1
        end == IF cdata THEN FirstIn(tokens, from, {"]]>"}) ELSE from - 1
        stop == IF end = 0 THEN 0 ELSE FirstIn(tokens, end + 1, MarkupTokens)
    IN  IF i = 0 \/ i > Len(tokens) \/ tokens[i] # open \/ end = 0 \/ stop = 0
        THEN [ok |-> FALSE, text |-> <<>>, next |-> 0]
        ELSE [ok |-> tokens[stop] = close,
              text |-> (IF cdata THEN SubSeq(tokens, from, end - 1) ELSE <<>>)
                       \o SubSeq(tokens, end + 1, stop - 1),
              next |-> stop + 1]

\* the reply as its receiver reads it
ParseReply(tokens) ==
    LET to == ReadElement(tokens, 2, "<ToUserName>", "</ToUserName>")
        from == ReadElement(tokens, to.next, "<FromUserName>", "</FromUserName>")
        time == ReadElement(tokens, from.next, "<CreateTime>", "</CreateTime>")
        type == ReadElement(tokens, time.next, "<MsgType>", "</MsgType>")
        content == ReadElement(tokens, type.next, "<Content>", "</Content>")
    IN  [ok |-> /\ Len(tokens) > 0 /\ tokens[1] = "<xml>"
                /\ to.ok /\ from.ok /\ time.ok /\ type.ok /\ content.ok
                /\ content.next = Len(tokens) /\ tokens[Len(tokens)] = "</xml>",
         ToUserName |-> to.text, FromUserName |-> from.text,
         MsgType |-> type.text, Content |-> content.text]

\* process_and_reply has returned and no later request has arrived
HookReturned == last.op = "process_and_reply" /\ last.val # None

\* a body that has every element its kind needs
WellFormedPayload(body) ==
    /\ ~HeaderRaises(body)
    /\ body.MsgType = "text" => body.Content # Missing
    /\ body.MsgType = "event" => body.Event # Missing

\* C13: when process_and_reply has returned from a body that has every
\* element its kind needs, whatever the kind (text, subscribe event, other
\* event, other type), the text of its FromUserName is in the stored
\* identifier set.
C13_SenderRegistered ==
    (HookReturned /\ WellFormedPayload(last.arg)) =>
        last.arg.FromUserName \in StoredOpenids

\* C14: every body is answered with media type application/xml and a reply
\* that parses as XML; a body whose parse or field lookup failed is answered
\* with the fixed failure reply.
C14_AlwaysWellFormedReply ==
    HookReturned =>
        /\ last.val.content_type = "application/xml"
        /\ ParseReply(last.val.xml).ok
        /\ (HeaderRaises(last.arg) \/ reply_content(last.arg) = Raised) =>
              /\ last.val.reply_content = <<FailureText>>
              /\ ParseReply(last.val.xml).Content = <<FailureText>>

\* C15: for a body that has every element its kind needs, the reply content
\* is the echo of the received content with the hint for text, the welcome
\* for a subscribe event, the generic acknowledgment for another event, and
\* the text-only notice for another type: one of the four, fixed by the kind.
C15_ReplyByKind ==
    (HookReturned /\ WellFormedPayload(last.arg)) =>
        LET body == last.arg
            content == last.val.reply_content
        IN  /\ body.MsgType = "text" =>
                 content = <<EchoHead>> \o Tokens(PyStr(body.Content)) \o <<EchoTail>>
            /\ (body.MsgType = "event" /\ body.Event = "subscribe") =>
                 content = <<WelcomeText>>
            /\ (body.MsgType = "event" /\ body.Event # "subscribe") =>
                 content = <<RecordedText>>
            /\ body.MsgType \notin {"text", "event"} =>
                 content = <<UnsupportedText>>

\* an event other than subscribe, sent by a registered sender, was answered
\* with the generic acknowledgment
C15_Witness ==
    /\ HookReturned /\ WellFormedPayload(last.arg)
    /\ last.arg.MsgType = "event" /\ last.arg.Event = "CLICK"
    /\ last.arg.FromUserName = "oA" /\ "oA" \in StoredOpenids
    /\ last.val.reply_content = <<RecordedText>>

\* C16: every reply to a body whose ToUserName and FromUserName could be
\* read is addressed to the inbound FromUserName, comes from the inbound
\* ToUserName and has MsgType text.
C16_ToFromSwapped ==
    (HookReturned /\ last.arg.parsed
       /\ Missing \notin {last.arg.ToUserName, last.arg.FromUserName}) =>
        LET reply == ParseReply(last.val.xml)
        IN  /\ reply.ToUserName = <<last.arg.FromUserName>>
            /\ reply.FromUserName = <<last.arg.ToUserName>>
            /\ reply.MsgType = <<"text">>
\* C17: when its write of the backing file fails, save_openid or
\* save_essay_data returns False and the stored collection is what it was
\* before; and when it returns True after a write, the file holds the new
\* content.
C17_FailedWriteKeepsStore ==
    [][\A t \in Threads :
          /\ (pc[t] = "so_save" /\ pc'[t] = "idle") =>
                /\ last'.val = FALSE => StoredOpenids' = StoredOpenids
                /\ last'.val = TRUE =>
                      openidsFile' = IntactFile(frame[t].to_save)
          /\ (pc[t] = "se_save" /\ pc'[t] = "idle") =>
                /\ last'.val = FALSE => StoredEssays' = StoredEssays
                /\ last'.val = TRUE =>
                      essaysFile' = IntactFile(frame[t].essays)]_vars
\* C18: a redirect with push_status=success means that the send succeeded
\* for every stored subscriber: no send of the batch failed.
C18_SuccessMeansAllSent ==
    push_status = "success" =>
        /\ failure_count = 0
        /\ succeeded = StoredOpenids
\* the lifetime the provider gave the token of the last fetch
ProviderTtl == IF fetched[1].resp.has_expires_in
               THEN fetched[1].resp.expires_in ELSE 7200

\* C19: after a successful fetch at time t with provider lifetime ttl (7200
\* when the answer has none), the cache holds that token with
\* token_expires_at = t + ttl - 300; a later get_access_token called at time
\* now is served from the cache iff now < t + ttl - 300, and then at least
\* 300 seconds of the lifetime counted from t are left.
C19_ExpiryIsTtlMinusMargin ==
    /\ [](fetched # NoFetch =>
            token_expires_at = fetched[1].t + ProviderTtl - 300)
    /\ [][fetched' # fetched =>
            /\ fetched'[1].t = now'
            /\ access_token' = fetched'[1].resp.access_token]_vars
    /\ [][(tokenCalls' = tokenCalls + 1 /\ fetched # NoFetch) =>
            /\ lastGet'.fetches = 0 <=> now < fetched[1].t + ProviderTtl - 300
            /\ lastGet'.fetches = 0 =>
                  /\ lastGet'.result = fetched[1].resp.access_token
                  /\ fetched[1].t + ProviderTtl - now >= 300]_vars

\* a token fetched without expires_in is served from the cache 300 seconds
\* after it was stored
C19_Witness ==
    /\ lastOp = "get_access_token"
    /\ fetched # NoFetch
    /\ ~fetched[1].resp.has_expires_in
    /\ lastGet.fetches = 0
    /\ lastGet.result = fetched[1].resp.access_token
    /\ lastGet.at = fetched[1].t + 300
\* the thread stands at a read of the file: the loads made under file_lock,
\* and the load of the essay sheet (_load_essays_from_excel) made by
\* save_essay_data, get_all_essays and get_latest_essay
ReadsFile(t, f) ==
    \/ f = "essays" /\ pc[t] \in {"se_load", "ga_load", "gl_load"}
    \/ f = "openids" /\ pc[t] \in {"so_load", "go_load"}
    \/ f = "messages" /\ pc[t] = "sm_body"

\* the thread stands at a write of the file
WritesFile(t, f) ==
    \/ f = "essays" /\ pc[t] = "se_save"
    \/ f = "openids" /\ pc[t] = "so_save"
    \/ f = "messages" /\ pc[t] = "sm_body"

\* C20: the lock serializes the persistence operations: in no reachable
\* state does a thread read or write a backing file while another thread
\* writes that file.
C20_NoReadOverlapsWrite ==
    \A t1, t2 \in Threads : \A f \in {"essays", "openids", "messages"} :
        (t1 # t2 /\ WritesFile(t1, f)) => ~(ReadsFile(t2, f) \/ WritesFile(t2, f))
\* the positions inside a `with self.file_lock:` block, and those in front
\* of one
LockedPcs == {"so_load", "so_save", "go_load", "se_save", "sm_body"}
WaitingPcs == {"so_load_lock", "so_save_lock", "go_load_lock", "se_save_lock",
               "sm_lock"}

\* C21: the lock is held exactly by the thread that is inside a locked
\* block, so it is released on every exit path (failed reads and writes
\* included) and free when no operation is in progress; no thread comes to
\* acquire the lock while it holds it; and under fair scheduling every
\* started operation completes.
C21_LockReleasedAndLive ==
    /\ [](\A t \in Threads :
            /\ pc[t] \in LockedPcs <=> file_lock = t
            /\ pc[t] \in WaitingPcs => file_lock # t)
    /\ [](AllIdle => file_lock = NoThread)
    /\ \A t \in Threads : (pc[t] # "idle") ~> (pc[t] = "idle")

\* a write under the lock has failed, the call has returned False and the
\* lock is free again
C21_Witness ==
    /\ faultsLeft < MaxFaults
    /\ last.op \in {"save_openid", "save_essay_data", "save_message_to_excel"}
    /\ last.val = FALSE
    /\ AllIdle
    /\ file_lock = NoThread
\* C22: a get_access_token whose fetch fails leaves _access_token and
\* _token_expires_at as they were; either field changes only in a call whose
\* fetch succeeded, and then both hold what that answer gave: its token, and
\* the time it was stored plus its lifetime minus 300.
C22_FailedFetchKeepsCache ==
    [][/\ (tokenCalls' = tokenCalls + 1 /\ lastGet'.failed) =>
              UNCHANGED <<access_token, token_expires_at>>
       /\ (access_token' # access_token \/ token_expires_at' # token_expires_at) =>
              /\ tokenCalls' = tokenCalls + 1
              /\ lastGet'.fetches = 1 /\ ~lastGet'.failed
              /\ fetched'[1].t = now'
              /\ access_token' = fetched'[1].resp.access_token
              /\ token_expires_at' = now' + ProviderTtl' - 300]_vars

\* the body fails before the sender is registered: it does not parse, or
\* ToUserName, FromUserName or MsgType is absent
FailsBefore(body) ==
    \/ ~body.parsed
    \/ body.ToUserName = Missing
    \/ body.FromUserName = Missing
    \/ body.MsgType = Missing

\* the body fails after that point: a text without Content, an event
\* without Event
FailsLater(body) ==
    /\ ~FailsBefore(body)
    /\ \/ body.MsgType = "text" /\ body.Content = Missing
       \/ body.MsgType = "event" /\ body.Event = Missing

\* C23: the sender is registered before the reply is selected, and only
\* when the three header elements are present and the sender is not empty.
\* When the reply is selected the sender, if not empty, is stored already,
\* and a body that fails then is answered with the failure reply while its
\* sender stays stored; a body that fails before is answered with the
\* failure reply at once and adds nothing; and the stored set changes only
\* by the sender of a body with a complete header and a non-empty sender.
C23_RegisteredBeforeReply ==
    [][\A t \in Threads :
          /\ (pc[t] = "pr_reply" /\ pc'[t] = "idle") =>
                LET body == frame[t].body
                IN  /\ ~FailsBefore(body)
                    /\ body.FromUserName # NoText =>
                          /\ body.FromUserName \in StoredOpenids
                          /\ body.FromUserName \in StoredOpenids'
                    /\ FailsLater(body) => last'.val = FailureReply(now)
                    /\ last'.val = FailureReply(now) => FailsLater(body)
          /\ (calls' = calls + 1 /\ pc' = pc) =>
                /\ FailsBefore(last'.arg)
                /\ last'.val = FailureReply(now)
                /\ UNCHANGED openidsFile
          /\ (pc[t] = "idle" /\ pc'[t] # "idle") =>
                /\ ~FailsBefore(frame'[t].body)
                /\ pc'[t] = "pr_reply" <=> frame'[t].body.FromUserName = NoText
          /\ (pc[t] = "so_save" /\ openidsFile' # openidsFile) =>
                /\ ~FailsBefore(frame[t].body)
                /\ frame[t].body.FromUserName # NoText
                /\ StoredOpenids' = StoredOpenids \cup {frame[t].body.FromUserName}
          /\ openidsFile' # openidsFile => \E u \in Threads : pc[u] = "so_save"]_vars

\* a text without Content from oA, the first request: the failure reply has
\* been returned and oA is stored
C23_Witness ==
    /\ HookReturned
    /\ calls = 1
    /\ last.arg.MsgType = "text" /\ last.arg.Content = Missing
    /\ last.arg.FromUserName = "oA"
    /\ last.val = FailureReply(now)
    /\ "oA" \in StoredOpenids
====
